---- MODULE Spec2Model ----
(***************************************************************************)
(* A model of the peer runtime of p2p-client (src/client.py, src/utils.py, *)
(* src/create_torrent.py): the piece store (PieceManager), the per-        *)
(* connection worker (PeerConnection.run) and the parts of the coordinator *)
(* (Client) that register sessions and broadcast have messages.            *)
(*                                                                         *)
(* Piece indices are 0-based as in the source; byte strings are sequences  *)
(* of byte values.  hashlib.sha1 is modelled as a collision-free digest.   *)
(***************************************************************************)
EXTENDS Integers, Sequences, FiniteSets, TLC

VARIABLES
    torrent,              \* utils.Torrent: the parsed metafile (immutable)
    phase,                \* "boot" before PieceManager.__init__, "run" after
    disk0,                \* the file found on disk when the process started
    disk,                 \* the storage file: NoFile or its bytes
    bitfield,             \* PieceManager.bitfield
    file_lock,            \* PieceManager.file_lock: 0 free, else the holder
    pc,                   \* per PeerConnection thread: position in run()
    choked,               \* PeerConnection.choked
    peer_bitfield,        \* PeerConnection.peer_bitfield
    outstanding_requests, \* PeerConnection.outstanding_requests {idx: ts}
    last_message_sent,    \* PeerConnection.last_message_sent
    sock_closed,          \* PeerConnection.sock._closed
    loc,                  \* per thread: locals of the handler in progress
    peers,                \* Client.peers
    lpending,             \* listener: thread started, not yet appended (0: none)
    now,                  \* time.time(), in seconds
    lastSend,             \* history: the frame put on a socket by the last step
    lastWrite,            \* history: the write_piece call that returned in the last step
    unchoke_seen,         \* history: sessions that dispatched an unchoke
    have_sent,            \* history: have(i) frames written per socket by other sessions
    sndbuf,               \* environment: the bytes one send call on a socket in use takes
    tx,                   \* per thread: the sock.sendall it is inside of
    remote,               \* environment: the remote peer a run follows (NoRemote: none)
    rx,                   \* per session: frames the followed remote sent, not yet read
    known,                \* environment: the swarm lists this endpoint at process start
    shutdown_flag,        \* Client.shutdown_flag
    shutdown_event,       \* PeerConnection.shutdown_event
    lstate,               \* the listener thread: "off", "run" or "exited"
    main_pc,              \* the main thread: position in Client.run / Client.stop
    main_k,               \* Client.stop: index of the for loop over self.peers
    reaped,               \* Client.run: the list the comprehension built, until it is assigned
    per_pc,               \* the periodic_announce thread: "off", "wait", "enter", "request", "dial", "mark", "exited"
    dial,                 \* announce_to_tracker: the peers of the response being dialed
    download_complete,    \* Client.download_complete
    endpoint,             \* PeerConnection.ip, PeerConnection.port of a dialed session
    lastAnnounce,         \* history: the latest request sent to the tracker
    completed_sent,       \* history: requests with event=completed sent so far
    bf_pc, bf_list, bf_bytes, bf_decoded, \* the bitfield codec harness
    fr_pc,                \* the frame reader: "off", or the recv_all call it is in
    fr_sent,              \* history: the frames the remote has sent
    fr_net,               \* the bytes of those frames still on their way
    fr_buf,               \* the bytes that arrived at the socket and were not read
    fr_data,              \* recv_all: data
    fr_length,            \* run(): length
    fr_msg_id,            \* run(): msg_id
    fr_got                \* history: the frames the reader has parsed

vars == <<torrent, phase, disk0, disk, bitfield, file_lock, pc, choked,
          peer_bitfield, outstanding_requests, last_message_sent, sock_closed,
          loc, peers, lpending, now, lastSend, lastWrite, unchoke_seen,
          have_sent, sndbuf, tx, remote, rx, known, shutdown_flag, shutdown_event,
          lstate, main_pc, main_k, reaped, per_pc, dial, download_complete, endpoint,
          lastAnnounce, completed_sent, bf_pc, bf_list, bf_bytes, bf_decoded,
          fr_pc, fr_sent, fr_net, fr_buf, fr_data, fr_length, fr_msg_id, fr_got>>

storeVars == <<disk, bitfield, file_lock>>
sessVars  == <<pc, choked, peer_bitfield, outstanding_requests, sock_closed, loc>>
histVars  == <<unchoke_seen, have_sent>>
bitsVars  == <<bf_pc, bf_list, bf_bytes, bf_decoded>>
frameVars == <<fr_pc, fr_sent, fr_net, fr_buf, fr_data, fr_length, fr_msg_id, fr_got>>
fixedVars == <<torrent, disk0, sndbuf, remote, known>>
netVars   == <<tx, rx>>
coordVars == <<shutdown_flag, shutdown_event, lstate, main_pc, main_k, reaped, per_pc, dial,
               download_complete, endpoint, lastAnnounce, completed_sent>>

----------------------------------------------------------------------------
(* Bounds of the model *)

MaxTime     == 61    \* the clock stops advancing here
MaxBits     == 9     \* longest bitmap of the codec harness
PipePieces  == 6     \* pieces of the torrent used for the pipelining runs
PipeServed  == 3     \* pieces the remote of the pipelining runs serves
MaxFrames   == 3     \* frames the remote of the framing runs sends

(* Program constants *)

MAX_PIPELINED_REQUESTS == 5
REQUEST_TIMEOUT        == 20
KEEPALIVE_AFTER        == 60

----------------------------------------------------------------------------
(* Byte strings, files and hashes *)

\* the storage path: no file, or a regular file holding bytes
NoFile   == [exists |-> FALSE, bytes |-> <<>>]
File(b)  == [exists |-> TRUE, bytes |-> b]

Min(a, b) == IF a < b THEN a ELSE b
Max(a, b) == IF a > b THEN a ELSE b

Pow2(n) == CASE n = 0 -> 1 [] n = 1 -> 2 [] n = 2 -> 4 [] n = 3 -> 8
             [] n = 4 -> 16 [] n = 5 -> 32 [] n = 6 -> 64 [] n = 7 -> 128

\* all byte strings over the values vals with length in lo..hi
ByteStrings(vals, lo, hi) == UNION {[1..n -> vals] : n \in lo..hi}

\* hashlib.sha1(data).digest(), collision-free
Sha1(data) == [sha1 |-> data]

\* f.seek(pos); f.read(n) on a file holding bytes f
ReadAt(f, pos, n) == SubSeq(f, pos + 1, Min(pos + n, Len(f)))

\* f.seek(pos); f.write(data) on a file opened 'r+b': bytes past the old end
\* that the write skips read as zero
WriteAt(f, pos, data) ==
    [k \in 1..Max(Len(f), pos + Len(data)) |->
        IF k > pos /\ k <= pos + Len(data) THEN data[k - pos]
        ELSE IF k <= Len(f) THEN f[k]
        ELSE 0]

----------------------------------------------------------------------------
(* The torrent descriptor *)

\* create_torrent_file: one hash per piece_size chunk of the shared file;
\* Torrent.__init__: total_pieces is the number of hashes
CreateTorrent(content, piece_size) ==
    LET n == (Len(content) + piece_size - 1) \div piece_size IN
    [ piece_length |-> piece_size,
      length       |-> Len(content),
      pieces       |-> [i \in 0..(n - 1) |->
                          Sha1(ReadAt(content, i * piece_size, piece_size))],
      total_pieces |-> n,
      info_hash    |-> Sha1(content) ]

Pieces(t) == 0..(t.total_pieces - 1)

\* the byte offset of piece index
StartPos(t, index) == index * t.piece_length

\* the length of piece index: the remainder for the last piece
PieceLen(t, index) ==
    IF index = t.total_pieces - 1 /\ t.length % t.piece_length > 0
    THEN t.length % t.piece_length
    ELSE t.piece_length

\* PieceManager._read_piece_data
ReadPieceData(t, f, index) == ReadAt(f, StartPos(t, index), PieceLen(t, index))

\* PieceManager.is_complete
IsComplete(bf) == \A i \in DOMAIN bf : bf[i]

----------------------------------------------------------------------------
(* The bitfield codec *)

\* a create_bitfield that numbers the bits of a byte from the low end
CreateBitfieldBitLsb(i) == Pow2(i % 8)

\* create_bitfield: a list of booleans (0-based function) to bytes
CreateBitfieldBit(i) == Pow2(7 - (i % 8))

create_bitfield(bl) ==
    LET n == Cardinality(DOMAIN bl)
        nbytes == (n + 7) \div 8
        ByteAt(b) ==
            LET RECURSIVE Sum(_)
                Sum(j) == IF j > 7 THEN 0
                          ELSE (IF (8 * b + j) \in DOMAIN bl /\ bl[8 * b + j]
                                THEN CreateBitfieldBit(8 * b + j) ELSE 0) + Sum(j + 1)
            IN Sum(0)
    IN [b \in 1..nbytes |-> ByteAt(b - 1)]

\* the msg_id == 5 branch of PeerConnection.run
DecodeBitfield(payload, total_pieces) ==
    [p \in 0..(total_pieces - 1) |->
        /\ (p \div 8) + 1 <= Len(payload)
        /\ (payload[(p \div 8) + 1] \div Pow2(7 - (p % 8))) % 2 = 1]

----------------------------------------------------------------------------
(* The piece store: PieceManager *)

\* PieceManager._verify_existing_file on a disk holding f (NoFile: no file):
\* the bitmap is all True when the file has the torrent's length and every
\* piece verifies, all False otherwise (the loop breaks at the first corrupt
\* piece); the file is pre-allocated only when it does not exist
VerifyExistingFile(t, f) ==
    LET sized == f.exists /\ Len(f.bytes) = t.length
        valid == sized /\ \A i \in Pieces(t) :
                              Sha1(ReadPieceData(t, f.bytes, i)) = t.pieces[i]
        bf    == [i \in Pieces(t) |-> valid]
    IN [ bitfield |-> bf,
         disk     |-> IF ~IsComplete(bf) /\ ~f.exists
                      THEN File(WriteAt(<<>>, t.length - 1, <<0>>))
                      ELSE f ]

\* Client.__init__ -> PieceManager.__init__
Construct ==
    /\ phase = "boot"
    /\ phase' = "run"
    /\ bitfield' = VerifyExistingFile(torrent, disk).bitfield
    /\ disk' = VerifyExistingFile(torrent, disk).disk
    /\ UNCHANGED <<file_lock, sessVars, last_message_sent, peers, lpending, now,
                   lastSend, lastWrite, histVars, bitsVars, frameVars, netVars,
                   coordVars, fixedVars>>

----------------------------------------------------------------------------
(* Sessions: PeerConnection *)

\* the PeerConnection threads a run may create
Sess == {1, 2, 3}

NoSend  == [sock |-> 0, by |-> 0, msg |-> [id |-> -2]]
NoWrite == [by |-> 0, idx |-> 0, ret |-> FALSE]
NoLoc  == [idx |-> 0, data |-> <<>>, k |-> 0, live |-> FALSE, list |-> <<>>,
           timed_out |-> {}]
NoTx   == [sock |-> 0, left |-> 0, ret |-> ""]

\* threading.Thread.is_alive: started and run() not yet returned
IsAlive(s) == pc[s] \notin {"idle", "done"}

\* frames (msg_id as in the wire protocol; -1 is the keep-alive)
KeepAliveMsg     == [id |-> -1]
ChokeMsg         == [id |-> 0]
UnchokeMsg       == [id |-> 1]
InterestedMsg    == [id |-> 2]
NotInterestedMsg == [id |-> 3]
HaveMsg(i)       == [id |-> 4, idx |-> i]
BitfieldMsg(p)   == [id |-> 5, payload |-> p]
RequestMsg(i, n) == [id |-> 6, idx |-> i, begin |-> 0, length |-> n]
PieceMsg(i, b)   == [id |-> 7, idx |-> i, begin |-> 0, block |-> b]
HandshakeMsg(h)  == [id |-> 19, info_hash |-> h]
BadMsg           == [id |-> 99]
\* what a receive can yield besides a frame
TimeoutEv        == [id |-> -10]
ClosedEv         == [id |-> -11]

\* the bytes of a frame on the wire: the 4-byte length prefix, the id and the
\* payload; the handshake is 68 bytes
FrameLen(msg) ==
    CASE msg.id = -1 -> 4
      [] msg.id = 4  -> 9
      [] msg.id = 5  -> 5 + Len(msg.payload)
      [] msg.id = 6  -> 17
      [] msg.id = 7  -> 13 + Len(msg.block)
      [] msg.id = 19 -> 68
      [] OTHER       -> 5

\* PeerConnection.send_message / sock.send by thread `by` on the socket of
\* session s; ok is whether the socket accepts the bytes (OSError otherwise)
SendMessage(by, s, msg, ok) ==
    /\ lastWrite' = NoWrite
    /\ IF sock_closed[s] \/ ~ok
       THEN /\ lastSend' = NoSend
            /\ UNCHANGED last_message_sent
       ELSE /\ lastSend' = [sock |-> s, by |-> by, msg |-> msg]
            /\ last_message_sent' = [last_message_sent EXCEPT ![s] = now]

\* a step that puts nothing on a socket
Quiet == lastSend' = NoSend /\ UNCHANGED last_message_sent

\* a step that puts nothing on a socket and returns from no write_piece
NoSendStep == Quiet /\ lastWrite' = NoWrite

Goto(s, label) == pc' = [pc EXCEPT ![s] = label]

\* where thread `by` stands after a step that may have called send_message:
\* at label, or inside sock.sendall while bytes of the frame remain to be
\* taken by the socket
Proceed(by, label) ==
    LET rest == IF lastSend'.by = by THEN FrameLen(lastSend'.msg) - sndbuf ELSE 0 IN
    /\ tx' = IF rest > 0
             THEN [tx EXCEPT ![by] = [sock |-> lastSend'.sock, left |-> rest, ret |-> label]]
             ELSE tx
    /\ pc' = [pc EXCEPT ![by] = IF rest > 0 THEN "sendall" ELSE label]

\* sock.sendall: the next send call of a frame the socket took in part; a
\* socket closed meanwhile raises OSError, which send_message swallows
SendAllRest(t) ==
    /\ pc[t] = "sendall"
    /\ IF sock_closed[tx[t].sock] \/ tx[t].left <= sndbuf
       THEN /\ tx' = [tx EXCEPT ![t] = NoTx]
            /\ Goto(t, tx[t].ret)
       ELSE /\ tx' = [tx EXCEPT ![t].left = @ - sndbuf]
            /\ UNCHANGED pc
    /\ NoSendStep
    /\ UNCHANGED <<phase, storeVars, choked, peer_bitfield, outstanding_requests,
                   sock_closed, loc, peers, lpending, now, histVars, bitsVars, frameVars, rx,
                   coordVars, fixedVars>>

\* the remote a run does not follow: its frames are inputs of the steps
NoRemote == [seeder |-> FALSE, file |-> <<>>, push |-> <<>>]

\* a remote running this program over the complete file: it sends its
\* handshake when the connection opens
RemoteGreeting ==
    IF remote.seeder THEN <<HandshakeMsg(torrent.info_hash)>> ELSE <<>>

\* what that remote sends in answer to frame msg: its opening frames after a
\* handshake for its info_hash (with the frames it pushes unasked after its
\* bitfield), the piece after a request
RemoteAnswer(msg) ==
    IF ~remote.seeder THEN <<>>
    ELSE CASE msg.id = 19 /\ msg.info_hash = torrent.info_hash ->
                <<BitfieldMsg(create_bitfield([i \in Pieces(torrent) |-> TRUE]))>>
                    \o remote.push \o <<InterestedMsg, UnchokeMsg>>
           [] msg.id = 6 /\ msg.idx \in Pieces(torrent) ->
                <<PieceMsg(msg.idx, ReadPieceData(torrent, remote.file, msg.idx))>>
           [] OTHER -> <<>>

\* reading frame ev from the connection of session s
Received(s, ev) ==
    [rx EXCEPT ![s] = IF @ # <<>> /\ ev = Head(@) THEN Tail(@) ELSE @]

\* run(): sock.send(handshake)
SendHandshake(s, ok) ==
    /\ pc[s] = "handshake"
    /\ IF ok
       THEN /\ lastSend' = [sock |-> s, by |-> s, msg |-> HandshakeMsg(torrent.info_hash)]
            /\ last_message_sent' = [last_message_sent EXCEPT ![s] = now]
            /\ lastWrite' = NoWrite
            /\ Goto(s, "hs_wait")
       ELSE /\ NoSendStep
            /\ Goto(s, "finally")
    /\ rx' = [rx EXCEPT ![s] = @ \o RemoteAnswer(lastSend'.msg)]
    /\ UNCHANGED <<phase, storeVars, choked, peer_bitfield, outstanding_requests,
                   sock_closed, loc, peers, lpending, now, histVars, bitsVars, frameVars, tx,
                   coordVars, fixedVars>>

\* run(): response = recv_all(sock, 68); resp is ClosedEv (None: the remote
\* closed the connection) or the handshake the remote sent.  "rejected" is
\* the return taken because the info_hash differs, "finally" the other returns
RecvHandshake(s, resp) ==
    /\ pc[s] = "hs_wait"
    /\ Goto(s, CASE resp.id # 19 -> "finally"
                 [] shutdown_event[s] -> "finally"
                 [] resp.info_hash # torrent.info_hash -> "rejected"
                 [] OTHER -> "open_bitfield")
    /\ rx' = Received(s, resp)
    /\ NoSendStep
    /\ UNCHANGED <<phase, storeVars, choked, peer_bitfield, outstanding_requests,
                   sock_closed, loc, peers, lpending, now, histVars, bitsVars, frameVars, tx,
                   coordVars, fixedVars>>

\* run(): the three opening frames
OpeningFrame(s) ==
    CASE pc[s] = "open_bitfield"   -> BitfieldMsg(create_bitfield(bitfield))
      [] pc[s] = "open_interested" -> InterestedMsg
      [] pc[s] = "open_unchoke"    -> UnchokeMsg

OpeningNext(s) ==
    CASE pc[s] = "open_bitfield"   -> "open_interested"
      [] pc[s] = "open_interested" -> "open_unchoke"
      [] pc[s] = "open_unchoke"    -> "loop"

SendOpening(s, ok) ==
    /\ pc[s] \in {"open_bitfield", "open_interested", "open_unchoke"}
    /\ SendMessage(s, s, OpeningFrame(s), ok)
    /\ Proceed(s, OpeningNext(s))
    /\ UNCHANGED <<phase, storeVars, choked, peer_bitfield, outstanding_requests,
                   sock_closed, loc, peers, lpending, now, histVars, bitsVars, frameVars, rx,
                   coordVars, fixedVars>>

\* run(): entries of outstanding_requests older than REQUEST_TIMEOUT
TimedOut(s) == {idx \in DOMAIN outstanding_requests[s] :
                   now - outstanding_requests[s][idx] > REQUEST_TIMEOUT}

\* run(): top of the main loop: the shutdown test, keep-alive, timeout sweep
\* (timed_out is the local list of the swept indices), is_complete test
LoopTop(s, ok) ==
    /\ pc[s] = "loop"
    /\ IF shutdown_event[s]
       THEN /\ NoSendStep
            /\ Goto(s, "finally")
            /\ UNCHANGED <<outstanding_requests, loc, tx>>
       ELSE /\ IF now - last_message_sent[s] > KEEPALIVE_AFTER
               THEN SendMessage(s, s, KeepAliveMsg, ok)
               ELSE NoSendStep
            /\ outstanding_requests' = [outstanding_requests EXCEPT ![s] =
                  [idx \in (DOMAIN outstanding_requests[s]) \ TimedOut(s) |->
                      outstanding_requests[s][idx]]]
            /\ loc' = [loc EXCEPT ![s] = [NoLoc EXCEPT !.timed_out = TimedOut(s)]]
            /\ Proceed(s, IF IsComplete(bitfield) THEN "recv" ELSE "pump")
    /\ UNCHANGED <<phase, storeVars, choked, peer_bitfield, sock_closed,
                   peers, lpending, now, histVars, bitsVars, frameVars, rx,
                   coordVars, fixedVars>>

\* a guard that forgets the pipelining limit
CanPipelineUncapped(s) == ~choked[s]

\* a guard that forgets the choke state
CanPipelineChoked(s) ==
    Cardinality(DOMAIN outstanding_requests[s]) < MAX_PIPELINED_REQUESTS

\* a pump that tests its guard once per loop iteration: an if for the while
CanPipelineOnce(s) ==
    /\ outstanding_requests[s] = <<>>
    /\ ~choked[s]

\* run(): the guard of the pipelining while loop
CanPipeline(s) ==
    /\ Cardinality(DOMAIN outstanding_requests[s]) < MAX_PIPELINED_REQUESTS
    /\ ~choked[s]

\* a scan that stops one short of the end of the bitmap
EligibleShort(s) == {i \in DOMAIN bitfield :
                       /\ i + 1 \in DOMAIN bitfield
                       /\ ~bitfield[i]
                       /\ peer_bitfield[s][i]
                       /\ i \notin DOMAIN outstanding_requests[s]}

\* run(): the pieces the for loop may pick
Eligible(s) == {i \in DOMAIN bitfield :
                  /\ ~bitfield[i]
                  /\ peer_bitfield[s][i]
                  /\ i \notin DOMAIN outstanding_requests[s]}

\* a scan that takes the highest eligible index
NextPieceHighest(s) == CHOOSE x \in Eligible(s) : \A y \in Eligible(s) : x >= y

\* run(): the for loop over the bitmap: the first eligible index
NextPiece(s) == CHOOSE x \in Eligible(s) : \A y \in Eligible(s) : x <= y

\* run(): one iteration of the pipelining while loop
Pump(s, ok) ==
    /\ pc[s] = "pump"
    /\ IF CanPipeline(s) /\ Eligible(s) # {}
       THEN LET i == NextPiece(s) IN
            /\ SendMessage(s, s, RequestMsg(i, PieceLen(torrent, i)), ok)
            /\ outstanding_requests' = [outstanding_requests EXCEPT ![s] =
                   [idx \in DOMAIN outstanding_requests[s] \cup {i} |->
                       IF idx = i THEN now ELSE outstanding_requests[s][idx]]]
            /\ Proceed(s, "pump")
       ELSE /\ NoSendStep
            /\ Goto(s, "recv")
            /\ UNCHANGED <<outstanding_requests, tx>>
    /\ rx' = [rx EXCEPT ![s] = @ \o RemoteAnswer(lastSend'.msg)]
    /\ UNCHANGED <<phase, storeVars, choked, peer_bitfield, sock_closed, loc,
                   peers, lpending, now, histVars, bitsVars, frameVars,
                   coordVars, fixedVars>>

\* run(): the dispatch of one received frame m that needs no store access
\* (choke, unchoke, have, bitfield; keep-alive and unknown ids change nothing)
DispatchLocal(s, m) ==
    /\ choked' = [choked EXCEPT ![s] =
          CASE m.id = 0 -> TRUE [] m.id = 1 -> FALSE [] OTHER -> @]
    /\ outstanding_requests' = [outstanding_requests EXCEPT ![s] =
          IF m.id = 0 THEN <<>> ELSE @]
    /\ peer_bitfield' = [peer_bitfield EXCEPT ![s] =
          CASE m.id = 4 /\ m.idx < torrent.total_pieces -> [@ EXCEPT ![m.idx] = TRUE]
            [] m.id = 5 -> DecodeBitfield(m.payload, torrent.total_pieces)
            [] OTHER -> @]
    /\ unchoke_seen' = IF m.id = 1 THEN unchoke_seen \cup {s} ELSE unchoke_seen
    /\ Goto(s, "loop")
    /\ loc' = [loc EXCEPT ![s] = NoLoc]

\* a piece branch that takes every piece frame
SolicitedAlways(s, idx) == TRUE

\* run(): the piece branch: if idx in self.outstanding_requests
Solicited(s, idx) == idx \in DOMAIN outstanding_requests[s]

\* run(): "Read messages": ev is a poll timeout, a closed or failed socket,
\* or one frame, which is dispatched
Recv(s, ev) ==
    /\ pc[s] = "recv"
    /\ NoSendStep
    /\ CASE ev.id = TimeoutEv.id ->
              /\ Goto(s, "loop")
              /\ loc' = [loc EXCEPT ![s] = NoLoc]
              /\ UNCHANGED <<choked, peer_bitfield, outstanding_requests, unchoke_seen>>
         [] ev.id = ClosedEv.id \/ ev.id = BadMsg.id ->
              \* recv_all returned None, or unpacking a malformed payload raised
              /\ Goto(s, "finally")
              /\ loc' = [loc EXCEPT ![s] = NoLoc]
              /\ UNCHANGED <<choked, peer_bitfield, outstanding_requests, unchoke_seen>>
         [] ev.id = 6 ->
              /\ Goto(s, "read_piece")
              /\ loc' = [loc EXCEPT ![s] = [NoLoc EXCEPT !.idx = ev.idx]]
              /\ UNCHANGED <<choked, peer_bitfield, outstanding_requests, unchoke_seen>>
         [] ev.id = 7 ->
              IF Solicited(s, ev.idx)
              THEN /\ outstanding_requests' = [outstanding_requests EXCEPT ![s] =
                          [idx \in (DOMAIN @) \ {ev.idx} |-> @[idx]]]
                   /\ Goto(s, "write_hash")
                   /\ loc' = [loc EXCEPT ![s] =
                          [NoLoc EXCEPT !.idx = ev.idx, !.data = ev.block]]
                   /\ UNCHANGED <<choked, peer_bitfield, unchoke_seen>>
              ELSE /\ Goto(s, "loop")
                   /\ loc' = [loc EXCEPT ![s] = NoLoc]
                   /\ UNCHANGED <<choked, peer_bitfield, outstanding_requests,
                                  unchoke_seen>>
         [] OTHER -> DispatchLocal(s, ev)
    /\ rx' = Received(s, ev)
    /\ UNCHANGED <<phase, storeVars, sock_closed, peers, lpending, now,
                   have_sent, bitsVars, frameVars, tx,
                   coordVars, fixedVars>>

\* a read_piece that serves whatever the file holds at the piece's place
ReadPieceUnchecked(s) ==
    /\ pc[s] = "read_piece"
    /\ file_lock = 0
    /\ Goto(s, IF loc[s].idx \notin DOMAIN bitfield THEN "finally" ELSE "read_data")
    /\ loc' = [loc EXCEPT ![s] = IF loc[s].idx \in DOMAIN bitfield THEN @ ELSE NoLoc]
    /\ NoSendStep
    /\ UNCHANGED <<phase, storeVars, choked, peer_bitfield, outstanding_requests,
                   sock_closed, peers, lpending, now, histVars, bitsVars, frameVars, netVars,
                   coordVars, fixedVars>>

\* PieceManager.read_piece: the bitfield test under file_lock; an index past
\* the bitmap raises IndexError, which ends run()
ReadPiece(s) ==
    /\ pc[s] = "read_piece"
    /\ file_lock = 0
    /\ Goto(s, CASE loc[s].idx \notin DOMAIN bitfield -> "finally"
                 [] ~bitfield[loc[s].idx] -> "loop"
                 [] OTHER -> "read_data")
    /\ loc' = [loc EXCEPT ![s] = IF loc[s].idx \in DOMAIN bitfield /\ bitfield[loc[s].idx]
                                 THEN @ ELSE NoLoc]
    /\ NoSendStep
    /\ UNCHANGED <<phase, storeVars, choked, peer_bitfield, outstanding_requests,
                   sock_closed, peers, lpending, now, histVars, bitsVars, frameVars, netVars,
                   coordVars, fixedVars>>

\* PieceManager._read_piece_data, called by read_piece after the lock was
\* released and taken again
ReadData(s) ==
    /\ pc[s] = "read_data"
    /\ file_lock = 0
    /\ loc' = [loc EXCEPT ![s].data = ReadPieceData(torrent, disk.bytes, loc[s].idx)]
    /\ Goto(s, "send_piece")
    /\ NoSendStep
    /\ UNCHANGED <<phase, storeVars, choked, peer_bitfield, outstanding_requests,
                   sock_closed, peers, lpending, now, histVars, bitsVars, frameVars, netVars,
                   coordVars, fixedVars>>

\* run(): if data: send_message(7, header + data)
SendPiece(s, ok) ==
    /\ pc[s] = "send_piece"
    /\ IF loc[s].data # <<>>
       THEN SendMessage(s, s, PieceMsg(loc[s].idx, loc[s].data), ok)
       ELSE NoSendStep
    /\ loc' = [loc EXCEPT ![s] = NoLoc]
    /\ Proceed(s, "loop")
    /\ UNCHANGED <<phase, storeVars, choked, peer_bitfield, outstanding_requests,
                   sock_closed, peers, lpending, now, histVars, bitsVars, frameVars, rx,
                   coordVars, fixedVars>>

\* a hash test that accepts every block
HashMatchesAlways(index, data) == TRUE

\* PieceManager.write_piece: the hash test, before the lock is taken
HashMatches(index, data) == Sha1(data) = torrent.pieces[index]

\* a session that ends when write_piece returns False
AfterWriteStop(s, ret) ==
    /\ lastWrite' = [by |-> s, idx |-> loc[s].idx, ret |-> ret]
    /\ IF ret
       THEN /\ Goto(s, "broadcast")
            /\ loc' = [loc EXCEPT ![s] = [NoLoc EXCEPT !.idx = loc[s].idx,
                                                       !.k = 1, !.live = TRUE]]
       ELSE /\ Goto(s, "finally")
            /\ loc' = [loc EXCEPT ![s] = NoLoc]

\* run(): what follows write_piece returning ret: broadcast_have(idx), which
\* starts iterating the list self.peers names at that moment, or the loop
AfterWrite(s, ret) ==
    /\ lastWrite' = [by |-> s, idx |-> loc[s].idx, ret |-> ret]
    /\ IF ret
       THEN /\ Goto(s, "broadcast")
            /\ loc' = [loc EXCEPT ![s] = [NoLoc EXCEPT !.idx = loc[s].idx,
                                                       !.k = 1, !.live = TRUE]]
       ELSE /\ Goto(s, "loop")
            /\ loc' = [loc EXCEPT ![s] = NoLoc]

\* a write_piece that writes the block first and tests the hash afterwards
WriteHashLate(s) ==
    /\ pc[s] = "write_hash"
    /\ disk' = File(WriteAt(disk.bytes, StartPos(torrent, loc[s].idx), loc[s].data))
    /\ IF Sha1(loc[s].data) = torrent.pieces[loc[s].idx]
       THEN /\ Goto(s, "write_lock")
            /\ UNCHANGED loc
            /\ lastWrite' = NoWrite
       ELSE AfterWrite(s, FALSE)
    /\ Quiet
    /\ UNCHANGED <<phase, bitfield, file_lock, choked, peer_bitfield,
                   outstanding_requests, sock_closed, peers, lpending, now, histVars,
                   bitsVars, frameVars, netVars,
                   coordVars, fixedVars>>

\* PieceManager.write_piece: a block of the wrong hash returns False
WriteHash(s) ==
    /\ pc[s] = "write_hash"
    /\ IF HashMatches(loc[s].idx, loc[s].data)
       THEN /\ Goto(s, "write_lock")
            /\ UNCHANGED loc
            /\ lastWrite' = NoWrite
       ELSE AfterWrite(s, FALSE)
    /\ Quiet
    /\ UNCHANGED <<phase, storeVars, choked, peer_bitfield, outstanding_requests,
                   sock_closed, peers, lpending, now, histVars, bitsVars, frameVars, netVars,
                   coordVars, fixedVars>>

\* PieceManager.write_piece: with file_lock: the "already have it" return,
\* else seek and write
WriteLock(s) ==
    /\ pc[s] = "write_lock"
    /\ file_lock = 0
    /\ IF bitfield[loc[s].idx]
       THEN /\ AfterWrite(s, TRUE)
            /\ UNCHANGED <<disk, file_lock>>
       ELSE /\ disk' = File(WriteAt(disk.bytes, StartPos(torrent, loc[s].idx), loc[s].data))
            /\ file_lock' = s
            /\ Goto(s, "write_mark")
            /\ UNCHANGED loc
            /\ lastWrite' = NoWrite
    /\ Quiet
    /\ UNCHANGED <<phase, bitfield, choked, peer_bitfield, outstanding_requests,
                   sock_closed, peers, lpending, now, histVars, bitsVars, frameVars, netVars,
                   coordVars, fixedVars>>

\* a bitmap update that rebuilds the bitmap around the new piece
MarkOnly(bf, index) == [i \in DOMAIN bf |-> i = index]

\* PieceManager.write_piece: the bitmap after the write
MarkPiece(bf, index) == [bf EXCEPT ![index] = TRUE]

\* PieceManager.write_piece: self.bitfield[index] = True, leave the lock,
\* return True
WriteMark(s) ==
    /\ pc[s] = "write_mark"
    /\ file_lock = s
    /\ bitfield' = MarkPiece(bitfield, loc[s].idx)
    /\ file_lock' = 0
    /\ AfterWrite(s, TRUE)
    /\ Quiet
    /\ UNCHANGED <<phase, disk, choked, peer_bitfield, outstanding_requests,
                   sock_closed, peers, lpending, now, histVars, bitsVars, frameVars, netVars,
                   coordVars, fixedVars>>

\* the list object broadcast_have of thread s iterates: Client.peers itself
\* until the main loop rebinds self.peers, the old list from then on
BroadcastList(s) == IF loc[s].live THEN peers ELSE loc[s].list

\* Client.broadcast_have: one iteration: if peer.is_alive(): peer.send_have
Broadcast(s, ok) ==
    /\ pc[s] = "broadcast"
    /\ IF loc[s].k > Len(BroadcastList(s))
       THEN /\ Goto(s, "loop")
            /\ loc' = [loc EXCEPT ![s] = NoLoc]
            /\ NoSendStep
            /\ UNCHANGED <<have_sent, tx>>
       ELSE LET p == BroadcastList(s)[loc[s].k] IN
            /\ loc' = [loc EXCEPT ![s].k = @ + 1]
            /\ IF IsAlive(p)
               THEN /\ SendMessage(s, p, HaveMsg(loc[s].idx), ok)
                    /\ have_sent' = IF sock_closed[p] \/ ~ok \/ p = s THEN have_sent
                                    ELSE [have_sent EXCEPT ![p][loc[s].idx] = @ + 1]
               ELSE /\ NoSendStep
                    /\ UNCHANGED have_sent
            /\ Proceed(s, "broadcast")
    /\ UNCHANGED <<phase, storeVars, choked, peer_bitfield, outstanding_requests,
                   sock_closed, peers, lpending, now, unchoke_seen,
                   bitsVars, frameVars, rx,
                   coordVars, fixedVars>>

\* run(): finally: close the socket if it is open; the thread ends
Finally(s) ==
    /\ pc[s] \in {"finally", "rejected"}
    /\ sock_closed' = [sock_closed EXCEPT ![s] = TRUE]
    /\ Goto(s, "done")
    /\ NoSendStep
    /\ UNCHANGED <<phase, storeVars, choked, peer_bitfield, outstanding_requests,
                   loc, peers, lpending, now, histVars, bitsVars, frameVars, netVars,
                   coordVars, fixedVars>>

----------------------------------------------------------------------------
(* The coordinator: Client *)

\* PeerConnection.__init__ for the thread s created at time `at`
NewSession(s) ==
    /\ choked' = [choked EXCEPT ![s] = TRUE]
    /\ peer_bitfield' = [peer_bitfield EXCEPT ![s] = [i \in Pieces(torrent) |-> FALSE]]
    /\ outstanding_requests' = [outstanding_requests EXCEPT ![s] = <<>>]
    /\ last_message_sent' = [last_message_sent EXCEPT ![s] = now]

\* the id of the next PeerConnection thread
FreshSession(s) ==
    /\ pc[s] = "idle"
    /\ \A r \in DOMAIN pc : r < s => pc[r] # "idle"

\* endpoints (ip, port) a tracker response can name; SelfEndpoint is the
\* client's own port on a local address
SelfEndpoint == "self"
NoEndpoint   == ""

NoDial == [by |-> "", todo |-> <<>>, sess |-> 0, stale |-> FALSE, then |-> ""]
NoAnnounce == [event |-> "none", downloaded |-> 0, left |-> 0]

\* a remote can connect once it can learn the endpoint: the tracker lists it
\* from an earlier run, or the started announce has been sent
Discoverable == known \/ main_pc \notin {"start", "announce"}

\* start_listener: accept a connection, create the thread and start it
ListenerAccept(s) ==
    /\ lstate = "run"
    /\ Discoverable
    /\ lpending = 0
    /\ FreshSession(s)
    /\ NewSession(s)
    /\ Goto(s, "handshake")
    /\ lpending' = s
    /\ rx' = [rx EXCEPT ![s] = RemoteGreeting]
    /\ lastSend' = NoSend
    /\ lastWrite' = NoWrite
    /\ UNCHANGED <<phase, storeVars, sock_closed, loc, peers, now, histVars,
                   bitsVars, frameVars, tx, coordVars, fixedVars>>

\* start_listener: self.peers.append(t), then the test of the while loop
ListenerAppend ==
    /\ lpending # 0
    /\ peers' = Append(peers, lpending)
    /\ lpending' = 0
    /\ lstate' = IF shutdown_flag THEN "exited" ELSE lstate
    /\ NoSendStep
    /\ UNCHANGED <<phase, storeVars, sessVars, now, histVars, bitsVars, frameVars, netVars,
                   shutdown_flag, shutdown_event, main_pc, main_k, reaped, per_pc, dial,
                   download_complete, endpoint, lastAnnounce, completed_sent,
                   fixedVars>>

\* start_listener: accept times out and the while loop finds the flag set
ListenerPoll ==
    /\ lstate = "run"
    /\ lpending = 0
    /\ shutdown_flag
    /\ lstate' = "exited"
    /\ NoSendStep
    /\ UNCHANGED <<phase, storeVars, sessVars, peers, lpending, now, histVars,
                   bitsVars, frameVars, netVars, shutdown_flag, shutdown_event, main_pc, main_k, reaped,
                   per_pc, dial, download_complete, endpoint, lastAnnounce,
                   completed_sent, fixedVars>>

\* Client.run: self.peers = [p for p in self.peers if p.is_alive()], with no
\* other thread running between the comprehension and the assignment; a
\* broadcast_have in progress keeps iterating the list it started on, and the
\* append of a connect_to_peer that has started its thread lands on either list
Reap(gone) ==
    /\ main_pc = "loop"
    /\ gone => dial.sess # 0
    /\ peers' = SelectSeq(peers, IsAlive)
    /\ loc' = [s \in DOMAIN loc |->
                 IF pc[s] = "broadcast" /\ loc[s].live
                 THEN [loc[s] EXCEPT !.live = FALSE, !.list = peers]
                 ELSE loc[s]]
    /\ dial' = [dial EXCEPT !.stale = @ \/ gone]
    /\ NoSendStep
    /\ UNCHANGED <<phase, storeVars, pc, choked, peer_bitfield, outstanding_requests,
                   sock_closed, lpending, now, histVars, bitsVars, frameVars, netVars,
                   shutdown_flag, shutdown_event, lstate, main_pc, main_k, reaped, per_pc,
                   download_complete, endpoint, lastAnnounce, completed_sent,
                   fixedVars>>

\* Client.run: the list comprehension of the main loop has gone through
\* self.peers; its result is not yet assigned
ReapRead ==
    /\ main_pc = "loop"
    /\ reaped' = SelectSeq(peers, IsAlive)
    /\ main_pc' = "reap"
    /\ NoSendStep
    /\ UNCHANGED <<phase, storeVars, sessVars, peers, lpending, now, histVars,
                   bitsVars, frameVars, netVars, shutdown_flag, shutdown_event, lstate, main_k,
                   per_pc, dial, download_complete, endpoint, lastAnnounce,
                   completed_sent, fixedVars>>

\* Client.run: self.peers = <the list the comprehension built>; a
\* broadcast_have in progress keeps iterating the list it started on
ReapAssign ==
    /\ main_pc = "reap"
    /\ peers' = reaped
    /\ reaped' = <<>>
    /\ main_pc' = "loop"
    /\ loc' = [s \in DOMAIN loc |->
                 IF pc[s] = "broadcast" /\ loc[s].live
                 THEN [loc[s] EXCEPT !.live = FALSE, !.list = peers]
                 ELSE loc[s]]
    /\ NoSendStep
    /\ UNCHANGED <<phase, storeVars, pc, choked, peer_bitfield, outstanding_requests,
                   sock_closed, lpending, now, histVars, bitsVars, frameVars, netVars,
                   shutdown_flag, shutdown_event, lstate, main_k, per_pc, dial,
                   download_complete, endpoint, lastAnnounce, completed_sent,
                   fixedVars>>

\* time passes
Tick(dt) ==
    /\ phase = "run"
    /\ now + dt <= MaxTime
    /\ now' = now + dt
    /\ NoSendStep
    /\ UNCHANGED <<phase, storeVars, sessVars, peers, lpending, histVars, bitsVars, frameVars,
                   netVars, coordVars, fixedVars>>

\* Client.run: start the listener thread, note a store that is complete
RunStart ==
    /\ phase = "run"
    /\ main_pc = "start"
    /\ lstate' = "run"
    /\ download_complete' = IsComplete(bitfield)
    /\ main_pc' = "announce"
    /\ NoSendStep
    /\ UNCHANGED <<phase, storeVars, sessVars, peers, lpending, now, histVars,
                   bitsVars, frameVars, netVars, shutdown_flag, shutdown_event, main_k, reaped, per_pc,
                   dial, endpoint, lastAnnounce, completed_sent, fixedVars>>

\* announce_to_tracker: 'started' becomes 'completed' for a complete store
AnnounceEvent(event) ==
    IF event = "started" /\ IsComplete(bitfield) THEN "completed" ELSE event

\* sum(self.manager.bitfield)
Popcount(bf) == Cardinality({i \in DOMAIN bf : bf[i]})

\* announce_to_tracker: the request sent to the tracker
SendAnnounce(event) ==
    /\ lastAnnounce' =
          [event      |-> AnnounceEvent(event),
           downloaded |-> Popcount(bitfield) * torrent.piece_length,
           left       |-> torrent.length - Popcount(bitfield) * torrent.piece_length]
    /\ completed_sent' = IF AnnounceEvent(event) = "completed"
                         THEN completed_sent + 1 ELSE completed_sent

\* announce_to_tracker has gone through the peers of the response: its caller
\* goes on; start_tracker_thread then starts the periodic thread
AnnounceReturn(by, then) ==
    /\ main_pc' = IF by = "main" THEN "loop" ELSE main_pc
    /\ per_pc' = IF by = "main" THEN "wait" ELSE then

\* announce_to_tracker by thread `by`: the request, and the response resp (the
\* endpoints it names; none when the request failed), whose peers are dialed
Announce(by, event, then, resp) ==
    /\ SendAnnounce(event)
    /\ IF resp = <<>>
       THEN /\ AnnounceReturn(by, then)
            /\ UNCHANGED dial
       ELSE /\ dial' = [NoDial EXCEPT !.by = by, !.todo = resp, !.then = then]
            /\ main_pc' = IF by = "main" THEN "dial" ELSE main_pc
            /\ per_pc' = IF by = "main" THEN per_pc ELSE "dial"

\* start_tracker_thread: announce_to_tracker('started')
AnnounceStarted(resp) ==
    /\ main_pc = "announce"
    /\ Announce("main", "started", "", resp)
    /\ NoSendStep
    /\ UNCHANGED <<phase, storeVars, sessVars, peers, lpending, now, histVars,
                   bitsVars, frameVars, netVars, shutdown_flag, shutdown_event, lstate, main_k, reaped,
                   download_complete, endpoint, fixedVars>>

\* periodic_announce: the wait is over: leave when the flag is set, else
\* call announce_to_tracker, with 'completed' for a store found complete for
\* the first time, without an event otherwise
PeriodicWake ==
    /\ per_pc = "wait"
    /\ per_pc' = CASE shutdown_flag -> "exited"
                   [] IsComplete(bitfield) /\ ~download_complete -> "enter_completed"
                   [] OTHER -> "enter"
    /\ NoSendStep
    /\ UNCHANGED <<phase, storeVars, sessVars, peers, lpending, now, histVars,
                   bitsVars, frameVars, netVars, shutdown_flag, shutdown_event, lstate, main_pc,
                   main_k, reaped, dial, download_complete, endpoint, lastAnnounce,
                   completed_sent, fixedVars>>

\* announce_to_tracker called by periodic_announce: the test of shutdown_flag
\* on entry, which returns to the caller when the flag is set
PeriodicEnter ==
    /\ per_pc \in {"enter", "enter_completed"}
    /\ per_pc' = CASE shutdown_flag /\ per_pc = "enter" -> "wait"
                   [] shutdown_flag /\ per_pc = "enter_completed" -> "mark"
                   [] ~shutdown_flag /\ per_pc = "enter" -> "request"
                   [] OTHER -> "request_completed"
    /\ NoSendStep
    /\ UNCHANGED <<phase, storeVars, sessVars, peers, lpending, now, histVars,
                   bitsVars, frameVars, netVars, shutdown_flag, shutdown_event, lstate, main_pc,
                   main_k, reaped, dial, download_complete, endpoint, lastAnnounce,
                   completed_sent, fixedVars>>

\* announce_to_tracker called by periodic_announce: the counters are read and
\* the request goes to the tracker
PeriodicRequest(resp) ==
    /\ per_pc \in {"request", "request_completed"}
    /\ IF per_pc = "request_completed"
       THEN Announce("periodic", "completed", "mark", resp)
       ELSE Announce("periodic", "", "wait", resp)
    /\ NoSendStep
    /\ UNCHANGED <<phase, storeVars, sessVars, peers, lpending, now, histVars,
                   bitsVars, frameVars, netVars, shutdown_flag, shutdown_event, lstate, main_k, reaped,
                   download_complete, endpoint, fixedVars>>

\* periodic_announce: self.download_complete = True
PeriodicMark ==
    /\ per_pc = "mark"
    /\ download_complete' = TRUE
    /\ per_pc' = "wait"
    /\ NoSendStep
    /\ UNCHANGED <<phase, storeVars, sessVars, peers, lpending, now, histVars,
                   bitsVars, frameVars, netVars, shutdown_flag, shutdown_event, lstate, main_pc,
                   main_k, reaped, dial, endpoint, lastAnnounce, completed_sent, fixedVars>>

\* connect_to_peer: the tests that make it return without connecting
DialRefused(ep) ==
    \/ shutdown_flag
    \/ ep = SelfEndpoint
    \/ \E k \in 1..Len(peers) : IsAlive(peers[k]) /\ endpoint[peers[k]] = ep

\* the loop over the response after one more of its peers is done with
DialNext(rest) ==
    IF rest = <<>>
    THEN /\ AnnounceReturn(dial.by, dial.then)
         /\ dial' = NoDial
    ELSE /\ dial' = [dial EXCEPT !.todo = rest, !.sess = 0, !.stale = FALSE]
         /\ UNCHANGED <<main_pc, per_pc>>

\* connect_to_peer returns without a session: a test refuses the endpoint, or
\* connect fails (failed)
ConnectSkip(failed) ==
    /\ dial.todo # <<>>
    /\ dial.sess = 0
    /\ DialRefused(Head(dial.todo)) \/ failed
    /\ DialNext(Tail(dial.todo))
    /\ NoSendStep
    /\ UNCHANGED <<phase, storeVars, sessVars, peers, lpending, now, histVars,
                   bitsVars, frameVars, netVars, shutdown_flag, shutdown_event, lstate, main_k, reaped,
                   download_complete, endpoint, lastAnnounce, completed_sent,
                   fixedVars>>

\* connect_to_peer: connect, create the thread s and start it
ConnectToPeer(s) ==
    /\ dial.todo # <<>>
    /\ dial.sess = 0
    /\ ~DialRefused(Head(dial.todo))
    /\ FreshSession(s)
    /\ NewSession(s)
    /\ Goto(s, "handshake")
    /\ endpoint' = [endpoint EXCEPT ![s] = Head(dial.todo)]
    /\ dial' = [dial EXCEPT !.sess = s]
    /\ rx' = [rx EXCEPT ![s] = RemoteGreeting]
    /\ lastSend' = NoSend
    /\ lastWrite' = NoWrite
    /\ UNCHANGED <<phase, storeVars, sock_closed, loc, peers, lpending, now,
                   histVars, bitsVars, frameVars, tx, shutdown_flag, shutdown_event, lstate,
                   main_pc, main_k, reaped, per_pc, download_complete, lastAnnounce,
                   completed_sent, fixedVars>>

\* connect_to_peer: self.peers.append(t); the append is lost when it lands on
\* the list the main loop has replaced
ConnectAppend ==
    /\ dial.sess # 0
    /\ peers' = IF dial.stale THEN peers ELSE Append(peers, dial.sess)
    /\ DialNext(Tail(dial.todo))
    /\ NoSendStep
    /\ UNCHANGED <<phase, storeVars, sessVars, lpending, now, histVars, bitsVars, frameVars,
                   netVars, shutdown_flag, shutdown_event, lstate, main_k, reaped,
                   download_complete, endpoint, lastAnnounce, completed_sent,
                   fixedVars>>

\* Client.stop, entered from the main loop (Ctrl+C, or the listener died):
\* self.shutdown_flag.set()
StopSetFlag ==
    /\ main_pc = "loop"
    /\ ~shutdown_flag
    /\ shutdown_flag' = TRUE
    /\ main_pc' = "stop_events"
    /\ main_k' = 1
    /\ NoSendStep
    /\ UNCHANGED <<phase, storeVars, sessVars, peers, lpending, now, histVars,
                   bitsVars, frameVars, netVars, shutdown_event, lstate, per_pc, dial,
                   download_complete, endpoint, lastAnnounce, completed_sent, reaped,
                   fixedVars>>

\* Client.stop: for peer in self.peers: peer.shutdown_event.set()
StopSetEvent ==
    /\ main_pc = "stop_events"
    /\ IF main_k > Len(peers)
       THEN /\ main_pc' = "stop_join"
            /\ main_k' = 0
            /\ UNCHANGED shutdown_event
       ELSE /\ shutdown_event' = [shutdown_event EXCEPT ![peers[main_k]] = TRUE]
            /\ main_k' = main_k + 1
            /\ UNCHANGED main_pc
    /\ NoSendStep
    /\ UNCHANGED <<phase, storeVars, sessVars, peers, lpending, now, histVars,
                   bitsVars, frameVars, netVars, shutdown_flag, lstate, per_pc, dial,
                   download_complete, endpoint, lastAnnounce, completed_sent, reaped,
                   fixedVars>>

\* Client.stop: the joins of the sessions and of the listener, each given up
\* after its timeout
StopJoin ==
    /\ main_pc = "stop_join"
    /\ main_pc' = "stop_announce"
    /\ NoSendStep
    /\ UNCHANGED <<phase, storeVars, sessVars, peers, lpending, now, histVars,
                   bitsVars, frameVars, netVars, shutdown_flag, shutdown_event, lstate, main_k, reaped,
                   per_pc, dial, download_complete, endpoint, lastAnnounce,
                   completed_sent, fixedVars>>

\* Client.stop: announce_to_tracker('stopped'); the peers of its response are
\* not dialed
AnnounceStopped ==
    /\ main_pc = "stop_announce"
    /\ SendAnnounce("stopped")
    /\ main_pc' = "stopped"
    /\ NoSendStep
    /\ UNCHANGED <<phase, storeVars, sessVars, peers, lpending, now, histVars,
                   bitsVars, frameVars, netVars, shutdown_flag, shutdown_event, lstate, main_k, reaped,
                   per_pc, dial, download_complete, endpoint, fixedVars>>

----------------------------------------------------------------------------
(* Inputs *)

ByteVals == {0, 1}

\* a socket buffer with room for every frame: the handshake is the longest
WholeFrames == 68
TickSteps == {REQUEST_TIMEOUT, REQUEST_TIMEOUT + 1 + REQUEST_TIMEOUT}

\* the shared file of the main runs: three bytes in pieces of two
MainTorrent == CreateTorrent(<<1, 0, 1>>, 2)

OtherInfoHash == Sha1(<<>>)

HandshakeReplies(t) == {ClosedEv, HandshakeMsg(t.info_hash), HandshakeMsg(OtherInfoHash)}

\* bitfield payloads a remote may send: every bitmap, a payload with the
\* padding bits set, a short payload
BitfieldPayloads(t) ==
    {create_bitfield(b) : b \in [Pieces(t) -> BOOLEAN]}
        \cup {[k \in 1..((t.total_pieces + 7) \div 8) |-> 255], <<>>}

\* everything a receive can yield
Events(t, payloads, blocks) ==
    {TimeoutEv, ClosedEv, BadMsg, KeepAliveMsg, ChokeMsg, UnchokeMsg, InterestedMsg,
     NotInterestedMsg}
        \cup {HaveMsg(i) : i \in 0..t.total_pieces}
        \cup {BitfieldMsg(p) : p \in payloads}
        \cup {RequestMsg(i, PieceLen(t, 0)) : i \in 0..t.total_pieces}
        \cup {PieceMsg(i, b) : i \in Pieces(t), b \in blocks}

\* what may be at the storage path when the process starts: nothing, the
\* complete file, files with one corrupt piece, a short and a long file
MainDisks == {NoFile, File(<<1, 0, 1>>), File(<<1, 0, 0>>), File(<<0, 0, 1>>),
              File(<<1, 0>>), File(<<1, 0, 1, 1>>)}

\* the blocks of the runs with two sessions: the two pieces and a block that
\* is neither
TwoPeerBlocks == {<<1, 0>>, <<1>>, <<0, 1>>}

\* the files of the runs with two sessions: none, the seeder's, a short one
\* and a long one
TwoPeerDisks == {NoFile, File(<<1, 0, 1>>), File(<<1, 0>>), File(<<1, 0, 1, 1>>)}

\* the inputs of the runs with two sessions: the remote advertises every piece
TwoPeerEvents ==
    {TimeoutEv, ClosedEv, BadMsg, ChokeMsg, UnchokeMsg, BitfieldMsg(<<255>>)}
        \cup {RequestMsg(i, PieceLen(MainTorrent, 0)) : i \in Pieces(MainTorrent)}
        \cup {PieceMsg(i, b) : i \in Pieces(MainTorrent), b \in TwoPeerBlocks}

\* the torrent of the pipelining runs: PipePieces pieces of one byte
PipeTorrent == CreateTorrent([k \in 1..PipePieces |-> k % 2], 1)

\* the inputs of the pipelining runs: a remote that advertises every piece,
\* or pieces 1 to 5 only, chokes and unchokes, answers the requests for the
\* first PipeServed pieces and lets the others time out
PipeEvents ==
    {TimeoutEv, ChokeMsg, UnchokeMsg, BitfieldMsg(<<255>>), BitfieldMsg(<<124>>),
     RequestMsg(0, PieceLen(PipeTorrent, 0))}
        \cup {PieceMsg(i, <<(i + 1) % 2>>) : i \in 0..(PipeServed - 1)}

\* the torrent of the broadcast runs: one piece
BcastTorrent == CreateTorrent(<<1>>, 1)

\* the inputs of the broadcast runs: a remote that serves the piece and asks
\* for it
BcastEvents == {UnchokeMsg, BitfieldMsg(<<255>>), PieceMsg(0, <<1>>),
                RequestMsg(0, PieceLen(BcastTorrent, 0))}

\* the file of the transfer runs: five bytes in pieces of two, the last piece
\* one byte
LiveFile == <<1, 0, 1, 1, 0>>

LiveTorrent == CreateTorrent(LiveFile, 2)

\* what a leecher finds at the storage path: nothing, or an empty file of
\* the torrent's length
LiveDisks == {NoFile, File(<<0, 0, 0, 0, 0>>)}

\* the seeder of the transfer runs: this program over the complete file
Seeder == [seeder |-> TRUE, file |-> LiveFile, push |-> <<>>]

\* a remote that advertises every piece and serves the bytes of a damaged
\* copy: piece 1 differs from the torrent's
CorruptSeeder == [seeder |-> TRUE, file |-> <<1, 0, 0, 0, 0>>, push |-> <<>>]

\* a remote that sends the first piece, intact, before it is asked, between
\* its bitfield and its unchoke, and serves every request
Pusher == [seeder |-> TRUE, file |-> LiveFile,
           push |-> <<PieceMsg(0, ReadPieceData(LiveTorrent, LiveFile, 0))>>]

\* what a read on the connection of session s yields when the run follows
\* the remote: the next frame it sent, a poll timeout when there is none
Arrived(s) == IF rx[s] = <<>> THEN {TimeoutEv} ELSE {Head(rx[s])}

\* recv_all(sock, 68) has no timeout: it waits for the remote's handshake
HandshakeArrived(s) == IF rx[s] = <<>> THEN {} ELSE {Head(rx[s])}

\* a socket buffer in use that has room for a have frame, and none for a
\* whole request or piece frame
SlowRoom == FrameLen(HaveMsg(0))

MainEvents == Events(MainTorrent, BitfieldPayloads(MainTorrent),
                     ByteStrings(ByteVals, 0, MainTorrent.piece_length))

----------------------------------------------------------------------------
(* Specifications *)

InitWith(t, files) ==
    /\ torrent = t
    /\ phase = "boot"
    /\ disk \in files
    /\ disk0 = disk
    /\ bitfield = [i \in Pieces(t) |-> FALSE]
    /\ file_lock = 0
    /\ pc = [s \in Sess |-> "idle"]
    /\ choked = [s \in Sess |-> TRUE]
    /\ peer_bitfield = [s \in Sess |-> [i \in Pieces(t) |-> FALSE]]
    /\ outstanding_requests = [s \in Sess |-> <<>>]
    /\ last_message_sent = [s \in Sess |-> 0]
    /\ sock_closed = [s \in Sess |-> FALSE]
    /\ loc = [s \in Sess |-> NoLoc]
    /\ peers = <<>>
    /\ lpending = 0
    /\ now = 0
    /\ lastSend = NoSend
    /\ lastWrite = NoWrite
    /\ unchoke_seen = {}
    /\ have_sent = [s \in Sess |-> [i \in Pieces(t) |-> 0]]
    /\ tx = [s \in Sess |-> NoTx]
    /\ rx = [s \in Sess |-> <<>>]
    /\ shutdown_flag = FALSE
    /\ shutdown_event = [s \in Sess |-> FALSE]
    /\ lstate = "off"
    /\ main_pc = "start"
    /\ main_k = 0
    /\ reaped = <<>>
    /\ per_pc = "off"
    /\ dial = NoDial
    /\ download_complete = FALSE
    /\ endpoint = [s \in Sess |-> NoEndpoint]
    /\ lastAnnounce = NoAnnounce
    /\ completed_sent = 0

\* the environment of a run: the room of the socket buffers, the remote the
\* run follows, whether the swarm knows the endpoint before the first announce
Env(room, peer, listed) ==
    /\ sndbuf = room
    /\ remote = peer
    /\ known = listed

\* the codec harness at rest
BitsOff ==
    /\ bf_pc = "off"
    /\ bf_list = <<>>
    /\ bf_bytes = <<>>
    /\ bf_decoded = <<>>

\* the frame reader is not part of the run
FramesOff ==
    /\ fr_pc = "off"
    /\ fr_sent = <<>>
    /\ fr_net = <<>>
    /\ fr_buf = <<>>
    /\ fr_data = <<>>
    /\ fr_length = 0
    /\ fr_msg_id = 0
    /\ fr_got = <<>>

\* one step of the worker of session s, its inputs drawn from events/replies
\* and the outcomes of its sends from oks
SessionStep(s, events, replies, oks) ==
    \/ \E ok \in oks : SendHandshake(s, ok)
    \/ \E resp \in replies : RecvHandshake(s, resp)
    \/ \E ok \in oks : SendOpening(s, ok)
    \/ \E ok \in oks : LoopTop(s, ok)
    \/ \E ok \in oks : Pump(s, ok)
    \/ \E ev \in events : Recv(s, ev)
    \/ ReadPiece(s)
    \/ ReadData(s)
    \/ \E ok \in oks : SendPiece(s, ok)
    \/ WriteHash(s)
    \/ WriteLock(s)
    \/ WriteMark(s)
    \/ \E ok \in oks : Broadcast(s, ok)
    \/ Finally(s)

\* one step of the process outside time, with a tracker that names no peer:
\* construction, the startup of Client.run, the listener, the main loop and
\* the workers of the sessions
ProcessStep(sessions, events, replies) ==
    \/ Construct
    \/ RunStart
    \/ AnnounceStarted(<<>>)
    \/ \E s \in sessions : ListenerAccept(s)
    \/ ListenerAppend
    \/ \E gone \in BOOLEAN : Reap(gone)
    \/ \E s \in sessions : SessionStep(s, events, replies, BOOLEAN)

\* Two concurrent sessions on the three-byte torrent
Init == InitWith(MainTorrent, TwoPeerDisks) /\ BitsOff /\ FramesOff /\ Env(WholeFrames, NoRemote, FALSE)

Next == ProcessStep({1, 2}, TwoPeerEvents, HandshakeReplies(MainTorrent))

Spec == Init /\ [][Next]_vars

\* One session with every input and the clock
InitSession == InitWith(MainTorrent, MainDisks) /\ BitsOff /\ FramesOff /\ Env(WholeFrames, NoRemote, FALSE)

NextSession ==
    \/ ProcessStep({1}, MainEvents, HandshakeReplies(MainTorrent))
    \/ \E dt \in TickSteps : Tick(dt)

SpecSession == InitSession /\ [][NextSession]_vars

\* One session pipelining requests for a torrent of PipePieces pieces
InitPipe == InitWith(PipeTorrent, {NoFile}) /\ BitsOff /\ FramesOff /\ Env(WholeFrames, NoRemote, FALSE)

NextPipe ==
    \/ ProcessStep({1}, PipeEvents, {HandshakeMsg(PipeTorrent.info_hash)})
    \/ \E dt \in TickSteps : Tick(dt)

SpecPipe == InitPipe /\ [][NextPipe]_vars

\* Three sessions downloading the same piece
InitBcast == InitWith(BcastTorrent, {NoFile}) /\ BitsOff /\ FramesOff /\ Env(WholeFrames, NoRemote, FALSE)

NextBcast == ProcessStep(Sess, BcastEvents, {HandshakeMsg(BcastTorrent.info_hash)})

SpecBcast == InitBcast /\ [][NextBcast]_vars

\* A leecher and a seeder connected by one session that stays up: every send
\* succeeds and the frames the seeder sends arrive in order
InitLive == InitWith(LiveTorrent, LiveDisks) /\ BitsOff /\ FramesOff /\ Env(WholeFrames, Seeder, FALSE)

\* the steps of the leecher's session worker while the connection is up
LiveStep(s) ==
    \/ SendHandshake(s, TRUE)
    \/ \E resp \in HandshakeArrived(s) : RecvHandshake(s, resp)
    \/ SendOpening(s, TRUE)
    \/ LoopTop(s, TRUE)
    \/ Pump(s, TRUE)
    \/ \E ev \in Arrived(s) : Recv(s, ev)
    \/ WriteHash(s)
    \/ WriteLock(s)
    \/ WriteMark(s)
    \/ Broadcast(s, TRUE)

NextLive ==
    \/ Construct
    \/ RunStart
    \/ AnnounceStarted(<<>>)
    \/ ListenerAccept(1)
    \/ ListenerAppend
    \/ LiveStep(1)

\* the threads are scheduled fairly and the seeder connects
FairLive ==
    /\ WF_vars(Construct)
    /\ WF_vars(RunStart)
    /\ WF_vars(AnnounceStarted(<<>>))
    /\ WF_vars(ListenerAccept(1))
    /\ WF_vars(ListenerAppend)
    /\ WF_vars(LiveStep(1))

SpecLive == InitLive /\ [][NextLive]_vars /\ FairLive

\* A leecher whose only peer serves piece 1 damaged, over one session that
\* stays up
InitCorrupt ==
    InitWith(LiveTorrent, LiveDisks) /\ BitsOff /\ FramesOff /\ Env(WholeFrames, CorruptSeeder, FALSE)

SpecCorrupt == InitCorrupt /\ [][NextLive]_vars /\ FairLive

\* A leecher whose peer pushes a piece unasked and whose requests can time
\* out before the answer is read, so that a second answer follows the first
InitPush == InitWith(LiveTorrent, LiveDisks) /\ BitsOff /\ FramesOff /\ Env(WholeFrames, Pusher, FALSE)

NextPush ==
    \/ NextLive
    \/ \E dt \in TickSteps : Tick(dt)

SpecPush == InitPush /\ [][NextPush]_vars

\* The registry under accepts, dials and a main loop whose comprehension and
\* assignment are separate steps; the sessions wait for a handshake or end
InitRegistry ==
    InitWith(BcastTorrent, {NoFile}) /\ BitsOff /\ FramesOff /\ Env(WholeFrames, NoRemote, FALSE)

\* the steps of a session worker in the registry runs: the remote answers
\* no handshake, and may close
RegistryStep(s) ==
    \/ SendHandshake(s, TRUE)
    \/ RecvHandshake(s, ClosedEv)
    \/ Finally(s)

NextRegistry ==
    \/ Construct
    \/ RunStart
    \/ \E resp \in {<<>>, <<"A">>} : AnnounceStarted(resp)
    \/ PeriodicWake
    \/ PeriodicEnter
    \/ \E resp \in {<<>>, <<"A">>} : PeriodicRequest(resp)
    \/ \E failed \in BOOLEAN : ConnectSkip(failed)
    \/ \E s \in Sess : ConnectToPeer(s)
    \/ ConnectAppend
    \/ \E s \in Sess : ListenerAccept(s)
    \/ ListenerAppend
    \/ ReapRead
    \/ ReapAssign
    \/ \E s \in Sess : RegistryStep(s)

SpecRegistry == InitRegistry /\ [][NextRegistry]_vars

\* The tracker threads of a client the swarm already lists, with up to two
\* sessions, accepted or dialed, that download the one piece
InitTracker ==
    InitWith(BcastTorrent, {NoFile, File(<<1>>)}) /\ BitsOff /\ FramesOff
        /\ Env(WholeFrames, NoRemote, TRUE)

\* what the tracker answers: no peer (or no answer), one remote endpoint, the
\* client's own endpoint and a remote one
TrackerResponses == {<<>>, <<"A">>, <<SelfEndpoint, "A">>}

\* the inputs of the tracker runs: a remote that serves the piece, or closes
TrackerEvents == {ClosedEv, UnchokeMsg, BitfieldMsg(<<255>>), PieceMsg(0, <<1>>)}

\* the steps of a session worker in the tracker runs
TrackerStep(s) ==
    \/ SendHandshake(s, TRUE)
    \/ RecvHandshake(s, HandshakeMsg(torrent.info_hash))
    \/ SendOpening(s, TRUE)
    \/ LoopTop(s, TRUE)
    \/ Pump(s, TRUE)
    \/ \E ev \in TrackerEvents : Recv(s, ev)
    \/ WriteHash(s)
    \/ WriteLock(s)
    \/ WriteMark(s)
    \/ Broadcast(s, TRUE)
    \/ Finally(s)

NextTracker ==
    \/ Construct
    \/ RunStart
    \/ \E resp \in TrackerResponses : AnnounceStarted(resp)
    \/ PeriodicWake
    \/ PeriodicEnter
    \/ \E resp \in TrackerResponses : PeriodicRequest(resp)
    \/ PeriodicMark
    \/ \E failed \in BOOLEAN : ConnectSkip(failed)
    \/ \E s \in {1, 2} : ConnectToPeer(s)
    \/ ConnectAppend
    \/ \E s \in {1, 2} : ListenerAccept(s)
    \/ ListenerAppend
    \/ \E gone \in BOOLEAN : Reap(gone)
    \/ \E s \in {1, 2} : TrackerStep(s)

SpecTracker == InitTracker /\ [][NextTracker]_vars

\* Shutdown with up to two accepted sessions whose remotes stay quiet
InitStop == InitWith(BcastTorrent, {NoFile}) /\ BitsOff /\ FramesOff /\ Env(WholeFrames, NoRemote, FALSE)

\* the steps of a session worker in the shutdown runs
StopStep(s) ==
    \/ SendHandshake(s, TRUE)
    \/ RecvHandshake(s, HandshakeMsg(torrent.info_hash))
    \/ SendOpening(s, TRUE)
    \/ LoopTop(s, TRUE)
    \/ Pump(s, TRUE)
    \/ \E ev \in {TimeoutEv, UnchokeMsg} : Recv(s, ev)
    \/ Finally(s)

NextStop ==
    \/ Construct
    \/ RunStart
    \/ AnnounceStarted(<<>>)
    \/ \E s \in {1, 2} : ListenerAccept(s)
    \/ ListenerAppend
    \/ ListenerPoll
    \/ Reap(FALSE)
    \/ PeriodicWake
    \/ PeriodicEnter
    \/ PeriodicRequest(<<>>)
    \/ StopSetFlag
    \/ StopSetEvent
    \/ StopJoin
    \/ AnnounceStopped
    \/ \E s \in {1, 2} : StopStep(s)

SpecStop == InitStop /\ [][NextStop]_vars

\* Two sessions on sockets whose buffers take the longer frames in parts
InitWire == InitWith(BcastTorrent, {NoFile}) /\ BitsOff /\ FramesOff /\ Env(SlowRoom, NoRemote, FALSE)

NextWire ==
    \/ ProcessStep({1, 2}, BcastEvents, {HandshakeMsg(BcastTorrent.info_hash)})
    \/ \E t \in {1, 2} : SendAllRest(t)

SpecWire == InitWire /\ [][NextWire]_vars

\* The bitfield codec on every bitmap of up to MaxBits pieces: the sender's
\* create_bitfield, then the receiver's decoding for the same total_pieces
BitsEncode ==
    /\ bf_pc = "start"
    /\ bf_bytes' = create_bitfield(bf_list)
    /\ bf_pc' = "encoded"
    /\ UNCHANGED <<phase, storeVars, sessVars, last_message_sent, peers, lpending,
                   now, lastSend, lastWrite, histVars, netVars, coordVars, fixedVars, frameVars,
                   bf_list, bf_decoded>>

BitsDecode ==
    /\ bf_pc = "encoded"
    /\ bf_decoded' = DecodeBitfield(bf_bytes, Cardinality(DOMAIN bf_list))
    /\ bf_pc' = "decoded"
    /\ UNCHANGED <<phase, storeVars, sessVars, last_message_sent, peers, lpending,
                   now, lastSend, lastWrite, histVars, netVars, coordVars, fixedVars, frameVars,
                   bf_list, bf_bytes>>

----------------------------------------------------------------------------
(* The read half of run() over a byte stream *)

\* struct.pack('>I', n)
PackU32(n) == <<(n \div 16777216) % 256, (n \div 65536) % 256, (n \div 256) % 256, n % 256>>

\* struct.unpack('>I', b)[0]
UnpackU32(b) == b[1] * 16777216 + b[2] * 65536 + b[3] * 256 + b[4]

\* a frame as the reader sees it: its id and payload bytes (id -1, no
\* payload: a keep-alive)
RawFrame(msg) ==
    [id |-> msg.id, payload |-> IF msg.id = 4 THEN PackU32(msg.idx) ELSE <<>>]

\* send_message: the bytes of a frame: length prefix, id, payload; a
\* keep-alive is the prefix 0 alone
FrameBytes(raw) ==
    IF raw.id = -1 THEN PackU32(0)
    ELSE PackU32(Len(raw.payload) + 1) \o <<raw.id>> \o raw.payload

\* the bytes of a sequence of frames
RECURSIVE StreamBytes(_)
StreamBytes(frames) ==
    IF frames = <<>> THEN <<>>
    ELSE FrameBytes(Head(frames)) \o StreamBytes(Tail(frames))

\* the remote sends a frame
FrameSend(msg) ==
    /\ fr_pc # "off"
    /\ Len(fr_sent) < MaxFrames
    /\ fr_sent' = Append(fr_sent, RawFrame(msg))
    /\ fr_net' = fr_net \o FrameBytes(RawFrame(msg))
    /\ UNCHANGED <<phase, storeVars, sessVars, last_message_sent, peers, lpending,
                   now, lastSend, lastWrite, histVars, netVars, coordVars, fixedVars,
                   bitsVars, fr_pc, fr_buf, fr_data, fr_length, fr_msg_id, fr_got>>

\* k more bytes arrive at the socket
FrameArrive(k) ==
    /\ k \in 1..Len(fr_net)
    /\ fr_buf' = fr_buf \o SubSeq(fr_net, 1, k)
    /\ fr_net' = SubSeq(fr_net, k + 1, Len(fr_net))
    /\ UNCHANGED <<phase, storeVars, sessVars, last_message_sent, peers, lpending,
                   now, lastSend, lastWrite, histVars, netVars, coordVars, fixedVars,
                   bitsVars, fr_pc, fr_sent, fr_data, fr_length, fr_msg_id, fr_got>>

\* recv_all: n of the call the reader is in
FrameWanted == CASE fr_pc = "length" -> 4
                 [] fr_pc = "msg_id" -> 1
                 [] OTHER -> fr_length - 1

\* recv_all: packet = sock.recv(n - len(data)); data += packet; when data is
\* complete recv_all returns and run() goes on: a length of 0 continues the
\* loop, a frame without payload or a complete payload is dispatched
FrameRecv ==
    /\ fr_pc \in {"length", "msg_id", "payload"}
    /\ fr_buf # <<>>
    /\ LET k == Min(FrameWanted - Len(fr_data), Len(fr_buf))
           data == fr_data \o SubSeq(fr_buf, 1, k)
           done == Len(data) = FrameWanted
       IN /\ fr_buf' = SubSeq(fr_buf, k + 1, Len(fr_buf))
          /\ fr_data' = IF done THEN <<>> ELSE data
          /\ fr_length' = IF done /\ fr_pc = "length" THEN UnpackU32(data) ELSE fr_length
          /\ fr_msg_id' = IF done /\ fr_pc = "msg_id" THEN data[1] ELSE fr_msg_id
          /\ fr_pc' = CASE ~done -> fr_pc
                        [] fr_pc = "length" /\ UnpackU32(data) = 0 -> "length"
                        [] fr_pc = "length" -> "msg_id"
                        [] fr_pc = "msg_id" /\ fr_length - 1 > 0 -> "payload"
                        [] OTHER -> "length"
          /\ fr_got' = CASE ~done -> fr_got
                         [] fr_pc = "length" /\ UnpackU32(data) = 0 ->
                              Append(fr_got, [id |-> -1, payload |-> <<>>])
                         [] fr_pc = "length" -> fr_got
                         [] fr_pc = "msg_id" /\ fr_length - 1 > 0 -> fr_got
                         [] fr_pc = "msg_id" ->
                              Append(fr_got, [id |-> data[1], payload |-> <<>>])
                         [] OTHER ->
                              Append(fr_got, [id |-> fr_msg_id, payload |-> data])
    /\ UNCHANGED <<phase, storeVars, sessVars, last_message_sent, peers, lpending,
                   now, lastSend, lastWrite, histVars, netVars, coordVars, fixedVars,
                   bitsVars, fr_sent, fr_net>>

\* recv_all(sock, 4) under settimeout(1.0): no byte arrives for a second,
\* sock.recv raises socket.timeout out of recv_all, run() continues its loop
\* and calls recv_all(sock, 4) anew
FrameTimeout ==
    /\ fr_pc = "length"
    /\ fr_buf = <<>>
    /\ fr_data' = <<>>
    /\ UNCHANGED <<phase, storeVars, sessVars, last_message_sent, peers, lpending,
                   now, lastSend, lastWrite, histVars, netVars, coordVars, fixedVars,
                   bitsVars, fr_pc, fr_sent, fr_net, fr_buf, fr_length, fr_msg_id,
                   fr_got>>

\* a session at "Read messages" with nothing received yet
InitFrames ==
    /\ InitWith(MainTorrent, {NoFile})
    /\ Env(WholeFrames, NoRemote, FALSE)
    /\ BitsOff
    /\ fr_pc = "length"
    /\ fr_sent = <<>>
    /\ fr_net = <<>>
    /\ fr_buf = <<>>
    /\ fr_data = <<>>
    /\ fr_length = 0
    /\ fr_msg_id = 0
    /\ fr_got = <<>>

NextFrames ==
    \/ \E msg \in {KeepAliveMsg, ChokeMsg, HaveMsg(1)} : FrameSend(msg)
    \/ \E k \in 1..4 : FrameArrive(k)
    \/ FrameRecv
    \/ FrameTimeout

SpecFrames == InitFrames /\ [][NextFrames]_vars

InitBits ==
    /\ InitWith(MainTorrent, {NoFile})
    /\ FramesOff
    /\ Env(WholeFrames, NoRemote, FALSE)
    /\ bf_pc = "start"
    /\ bf_list \in UNION {[0..(n - 1) -> BOOLEAN] : n \in 0..MaxBits}
    /\ bf_bytes = <<>>
    /\ bf_decoded = <<>>

NextBits == BitsEncode \/ BitsDecode

SpecBits == InitBits /\ [][NextBits]_vars

----------------------------------------------------------------------------
(* Properties *)

\* whether the bytes on disk in the range of piece i hash to piece_hashes[i]
PieceOnDiskValid(i) ==
    /\ disk.exists
    /\ Sha1(ReadPieceData(torrent, disk.bytes, i)) = torrent.pieces[i]

\* C1: in every reachable state, for every index i with have[i] true the
\* bytes on disk in piece i's range hash to piece_hashes[i].
C1_HaveImpliesHash ==
    \A i \in DOMAIN bitfield : bitfield[i] => PieceOnDiskValid(i)

\* a process that started without a file and downloaded every piece
C1_Witness ==
    /\ phase = "run"
    /\ ~disk0.exists
    /\ IsComplete(bitfield)

\* C2: have is monotonic: no step of the process takes have[i] from true to
\* false.
C2_HaveMonotonic ==
    [][\A i \in DOMAIN bitfield : bitfield[i] => bitfield'[i]]_vars

\* a second piece is being written while a downloaded piece is already held
C2_Witness ==
    /\ \E i \in DOMAIN bitfield :
          bitfield[i] /\ ~VerifyExistingFile(torrent, disk0).bitfield[i]
    /\ \E s \in Sess : pc[s] = "write_mark" /\ ~bitfield[loc[s].idx]

\* C3: a write_piece call with a block whose hash differs from
\* piece_hashes[index] returns False and leaves the file and the bitmap as
\* they were.
C3_RejectedWriteChangesNothing ==
    [][\A s \in Sess :
          ( /\ pc[s] = "write_hash"
            /\ pc'[s] # "write_hash"
            /\ Sha1(loc[s].data) # torrent.pieces[loc[s].idx] )
          => ( /\ lastWrite' = [by |-> s, idx |-> loc[s].idx, ret |-> FALSE]
               /\ disk' = disk
               /\ bitfield' = bitfield )]_vars

\* a write_piece call has just returned False in a store that holds a piece
C3_Witness ==
    /\ lastWrite.by # 0
    /\ ~lastWrite.ret
    /\ \E i \in DOMAIN bitfield : bitfield[i]
    /\ ~IsComplete(bitfield)

\* C4: in every reachable state every session has at most
\* MAX_PIPELINED_REQUESTS outstanding requests.
C4_PipelineBound ==
    \A s \in Sess :
        Cardinality(DOMAIN outstanding_requests[s]) <= MAX_PIPELINED_REQUESTS

\* an unchoked session at the limit, with a further piece it could request
C4_Witness ==
    \E s \in Sess :
        /\ Cardinality(DOMAIN outstanding_requests[s]) = MAX_PIPELINED_REQUESTS
        /\ ~choked[s]
        /\ Eligible(s) # {}
        /\ pc[s] = "recv"

\* C5: a request frame is sent only by a session the remote has unchoked:
\* the session has dispatched an unchoke and no choke since.
C5_RequestOnlyUnchoked ==
    lastSend.msg.id = 6 =>
        /\ ~choked[lastSend.sock]
        /\ lastSend.sock \in unchoke_seen

\* a session that was unchoked and choked again left the request pump
\* without sending, although a piece is there to request
C5_Witness ==
    \E s \in Sess :
        /\ choked[s]
        /\ s \in unchoke_seen
        /\ Eligible(s) # {}
        /\ pc[s] = "recv"
        /\ lastSend = NoSend

\* C6: for each piece i, each session receives exactly one have(i) from the
\* other sessions; here its half "never more than one".
C6_OneHavePerSession ==
    \A p \in Sess : \A i \in DOMAIN have_sent[p] : have_sent[p][i] <= 1

\* C7: decoding the bytes of create_bitfield(b) for the same total_pieces
\* gives b back.
C7_BitfieldRoundTrip ==
    bf_pc = "decoded" => bf_decoded = bf_list

\* a decoded bitmap whose length is no multiple of 8, with the last piece set
\* and the first missing
C7_Witness ==
    /\ bf_pc = "decoded"
    /\ Cardinality(DOMAIN bf_list) > 8
    /\ Cardinality(DOMAIN bf_list) % 8 # 0
    /\ bf_list[Cardinality(DOMAIN bf_list) - 1]
    /\ ~bf_list[0]

\* the process has been constructed and no session has run yet
JustConstructed == phase = "run" /\ \A s \in Sess : pc[s] = "idle"

\* C8: when the file exists with size total_length, after construct have[i]
\* is true exactly when the bytes of piece i on disk hash to piece_hashes[i].
C8_VerifyPerPiece ==
    (JustConstructed /\ disk0.exists /\ Len(disk0.bytes) = torrent.length)
        => \A i \in DOMAIN bitfield : bitfield[i] <=> PieceOnDiskValid(i)

\* C9: after construct the storage file is exactly total_length bytes, and
\* stays so.
C9_FileSize ==
    phase = "run" => (disk.exists /\ Len(disk.bytes) = torrent.length)

\* C10: once a session has rejected the handshake for its info_hash, no
\* frame is put on its socket.
C10_NoTrafficAfterReject ==
    lastSend.sock # 0 => pc[lastSend.sock] # "rejected"

\* C11: sends on one socket are serialized: no thread puts a frame on a
\* socket while another thread is inside sendall with part of its frame still
\* to go, so every frame is contiguous on the wire.
C11_SendsSerialized ==
    \A t \in Sess :
        (pc[t] = "sendall" /\ lastSend.sock = tx[t].sock) => lastSend.by = t

\* the leecher holds every piece and its file is the seeder's
TransferDone == IsComplete(bitfield) /\ disk = File(remote.file)

Requestable(s) ==
    {i \in loc[s].timed_out : ~choked[s] /\ peer_bitfield[s][i] /\ ~bitfield[i]}

C14_ShutdownReachesSessions ==
    main_pc = "stopped" => \A s \in Sess : IsAlive(s) => shutdown_event[s]

\* C15: the completed event is sent to the tracker at most once per process.
C15_CompletedOnce == completed_sent <= 1

\* C16: no session is dialed to the client's own endpoint, and no two live
\* dialed sessions have the same remote endpoint.
C16_NoDuplicateDial ==
    \A a \in Sess :
        /\ endpoint[a] # SelfEndpoint
        /\ \A b \in Sess :
              (a # b /\ IsAlive(a) /\ IsAlive(b) /\ endpoint[a] # NoEndpoint)
                  => endpoint[a] # endpoint[b]

\* write_piece of session s has just returned False for piece i
WriteRefused(s, i) == lastWrite.by = s /\ lastWrite.idx = i /\ ~lastWrite.ret

\* C17: when a piece message for a pending index i carries a block of the
\* wrong hash, the session has removed i from pending, have[i] stays false
\* and the session is back at its loop; it then requests i again; a leecher
\* whose only peer always serves piece i damaged never becomes complete.
C17_CorruptPieceRerequested ==
    /\ [](\A s \in Sess : \A i \in Pieces(LiveTorrent) :
            WriteRefused(s, i) =>
                /\ i \notin DOMAIN outstanding_requests[s]
                /\ ~bitfield[i]
                /\ pc[s] = "loop")
    /\ \A i \in Pieces(LiveTorrent) :
            WriteRefused(1, i) ~> (i \in DOMAIN outstanding_requests[1])
    /\ [](~IsComplete(bitfield))

\* the damaged piece 1 is refused for the second time: pieces 0 and 2, which
\* the remote served after the first damaged block, are stored
C17_Witness ==
    /\ remote = CorruptSeeder
    /\ WriteRefused(1, 1)
    /\ bitfield[0] /\ bitfield[2]

\* C18: every request the pump of a session sends is for the smallest index
\* the store lacks, the remote advertises and the session has not pending
\* when the pump picks it, and the step records the index in pending with the
\* current time.
C18_LowestIndexFirst ==
    [][\A s \in Sess :
          (pc[s] = "pump" /\ lastSend' # lastSend
              /\ lastSend'.msg.id = 6 /\ lastSend'.by = s)
          => LET i == lastSend'.msg.idx IN
             /\ ~bitfield[i]
             /\ peer_bitfield[s][i]
             /\ i \notin DOMAIN outstanding_requests[s]
             /\ \A j \in 0..(i - 1) :
                    bitfield[j] \/ ~peer_bitfield[s][j]
                        \/ j \in DOMAIN outstanding_requests[s]
             /\ i \in DOMAIN outstanding_requests'[s]
             /\ outstanding_requests'[s][i] = now]_vars

\* a request has gone out for an index below one that is still pending, with
\* a higher index the session could have asked for instead
C18_Witness ==
    \E s \in Sess :
        /\ lastSend.msg.id = 6 /\ lastSend.by = s
        /\ \E k \in DOMAIN outstanding_requests[s] : k > lastSend.msg.idx
        /\ \E j \in Eligible(s) : j > lastSend.msg.idx

\* C19: every piece frame a session sends is for a piece the store holds and
\* carries the whole piece as the file holds it, of the torrent's hash; none
\* is sent for a piece still missing, also while another session is inside
\* write_piece.
C19_ServedPiecesVerified ==
    lastSend.msg.id = 7 =>
        LET i == lastSend.msg.idx IN
        /\ i \in DOMAIN bitfield
        /\ bitfield[i]
        /\ Sha1(lastSend.msg.block) = torrent.pieces[i]
        /\ Len(lastSend.msg.block) = PieceLen(torrent, i)
        /\ lastSend.msg.block = ReadPieceData(torrent, disk.bytes, i)

\* a session serves a piece this process downloaded while another session
\* holds file_lock inside write_piece, its block written, the bitmap not yet
C19_Witness ==
    \E s \in Sess : \E o \in Sess \ {s} :
        /\ lastSend.msg.id = 7 /\ lastSend.by = s
        /\ ~VerifyExistingFile(torrent, disk0).bitfield[lastSend.msg.idx]
        /\ pc[o] = "write_mark"
        /\ file_lock = o

\* C20: a piece index is in the pending map of at most one session at a
\* time.
C20_PendingExclusive ==
    \A a \in Sess : \A b \in Sess \ {a} :
        DOMAIN outstanding_requests[a] \cap DOMAIN outstanding_requests[b] = {}

\* C21: once stop() has sent the stopped announce, it stays the latest
\* announce of the process.
C21_StoppedIsLast == main_pc = "stopped" => lastAnnounce.event = "stopped"

\* C22: every announce reports 0 <= left <= length and downloaded <= length,
\* with left = 0 exactly when the store is complete as the announce is made.
C22_CountersConsistent ==
    [][lastAnnounce' # lastAnnounce =>
          /\ 0 <= lastAnnounce'.left
          /\ lastAnnounce'.left <= torrent.length
          /\ lastAnnounce'.downloaded <= torrent.length
          /\ (lastAnnounce'.left = 0) <=> IsComplete(bitfield)]_vars

\* the next frame session s reads is a piece frame for an index that is not
\* in its pending map
Unsolicited(s) ==
    /\ pc[s] = "recv"
    /\ rx[s] # <<>>
    /\ Head(rx[s]).id = 7
    /\ Head(rx[s]).idx \notin DOMAIN outstanding_requests[s]

\* C23: reading an unsolicited piece frame leaves the file, the bitmap and
\* pending as they are, sends nothing, and the session is back at its loop
\* with nothing of the frame kept, also when the block is the piece's.
C23_UnsolicitedPieceIgnored ==
    [][\A s \in Sess :
          (Unsolicited(s) /\ rx'[s] = Tail(rx[s]))
          => /\ disk' = disk
             /\ bitfield' = bitfield
             /\ outstanding_requests' = outstanding_requests
             /\ pc'[s] = "loop"
             /\ loc'[s] = NoLoc
             /\ lastSend' = NoSend]_vars

\* the intact piece 0 the remote pushed while the session was choked has been
\* read: the frames after it are next, the store still lacks piece 0
C23_Witness ==
    /\ remote.push # <<>>
    /\ rx[1] = <<InterestedMsg, UnchokeMsg>>
    /\ pc[1] = "loop"
    /\ choked[1]
    /\ ~bitfield[0]

\* session s is in the registry
InRegistry(s) == \E k \in 1..Len(peers) : peers[k] = s

\* C24: no step takes a session whose worker is running out of the registry.
C24_RegistryKeepsLive ==
    [][\A s \in Sess : (InRegistry(s) /\ IsAlive(s)) => InRegistry(s)']_vars

\* C25: the frames the reader has dispatched are the first frames the remote
\* sent, and whenever the reader starts on a length prefix, the bytes it has
\* taken from the stream are exactly the bytes of those frames: no byte was
\* dropped.
C25_FramesAligned ==
    /\ Len(fr_got) <= Len(fr_sent)
    /\ fr_got = SubSeq(fr_sent, 1, Len(fr_got))
    /\ (fr_pc = "length" /\ fr_data = <<>>)
          => Len(StreamBytes(fr_sent)) - Len(fr_net) - Len(fr_buf)
                 = Len(StreamBytes(fr_got))

====
